---- MODULE Spec2Model ----
(***************************************************************************)
(* CloudWatch Pro API gateway (src/services/api-gateway): the rate         *)
(* limiter, the token verifier, the service registry, the load balancer    *)
(* and the request pipeline, as state machines over the shared key-value   *)
(* store.                                                                  *)
(***************************************************************************)
EXTENDS Integers, Sequences, FiniteSets, TLC

(***************************************************************************)
(* Bounds of the model.                                                    *)
(***************************************************************************)
\* settings.rate_limit_requests (L), read from the environment (1000 when
\* unset); the model runs it at a small value.
RateLimitRequests == 3
\* Time is counted in units of 1800 s.  settings.rate_limit_window (W) is
\* 3600 s, the default lifetime blacklist_token gives an entry is 3600 s and
\* access_token_expire_minutes is 30.
RateLimitWindow == 2
DefaultBlacklistTtl == 2
AccessTokenExpire == 1
\* Requests one client may issue past the limit inside one window.
MaxOverLimit == 2

Clients == {"10.0.0.1", "10.0.0.2"}

\* The store operation that raises during one call ("none": the store works).
StoreFaults == {"none", "get", "write"}

VARIABLES
    phase,           \* the gateway process: "init", "up" (started) or "failed"
    resp,            \* the last request the gateway handled and its response
    proxyAttempts,   \* outbound calls proxy_request has issued and seen end
    exchange,        \* the last exchange proxy_request forwarded: the inbound
                     \* request, the outbound one, the downstream response and
                     \* what the handler made of it
    total_requests,  \* LoadBalancer.total_requests
    request_counts,  \* LoadBalancer.request_counts: name -> int
    response_times,  \* LoadBalancer.response_times: name -> list of samples
    error_counts,    \* LoadBalancer.error_counts: name -> int
    recorded,        \* per name, every sample record_request was given, in order
    rrRun,           \* the current run of round_robin selections on one list
    sentTo,          \* history: per instance, the proxied calls to it that were
                     \* reported to record_request
    services,   \* ServiceDiscovery.services: name -> service_info
    redisSvc,   \* redis "service:<name>" hashes: name -> field -> value
    loopTime,   \* the event loop's clock, read by health_check
    sdLast,     \* history: the last call made to the registry
    deregistered,  \* history: names whose last register/deregister call was a
                   \* deregister_service that returned
    inflight,   \* per name, the health_check suspended on its GET: "none",
                \* "live" (the entry it holds is the registry's) or "stale"
                \* (the name was deregistered or registered anew since)
    failStreak, \* per name, the failed probes in a row (at most 3 counted)
    tokLife,    \* per token with an exp claim, exp - now (negative: expired)
    blTtl,      \* redis "blacklist:<token>": remaining time-to-live, 0 when absent
    blCalled,   \* history: the tokens blacklist_token was called for
    authLast,   \* the last verify_token call and its outcome
    authSeen,   \* per cause of failure, the detail of the last 401 it produced
    rlCount,    \* redis "rate_limit:<ip>": the counter, 0 when the key is absent
    rlTtl,      \* its remaining time-to-live (-1: no expiry, 0: absent)
    rlWin,      \* per client, what was observed since the key was last absent
    rlLast,     \* the last rate_limit_middleware call and its outcome
    rlTask,     \* per gateway worker, the rate_limit_middleware call it runs:
                \* where it stands, for which client, and the value it read
    rlUnit      \* history: per client, the calls started and the calls admitted
                \* in the current unit of time

rlVars == <<rlCount, rlTtl, rlWin, rlLast, rlTask, rlUnit>>

(***************************************************************************)
(* auth_middleware.rate_limit_middleware.  cur is the value redis get      *)
(* returns (0 for None); the result is the outcome for the caller and the  *)
(* key as the call leaves it.                                              *)
(***************************************************************************)
RateLimitOffByOne(cur, ttl, fault) ==
    IF fault = "get"
    THEN [outcome |-> "admit", count |-> cur, ttl |-> ttl, failed |-> TRUE]
    ELSE IF cur = 0
    THEN IF fault = "write"
         THEN [outcome |-> "admit", count |-> cur, ttl |-> ttl, failed |-> TRUE]
         ELSE [outcome |-> "admit", count |-> 1, ttl |-> RateLimitWindow,
               failed |-> FALSE]
    ELSE IF cur > RateLimitRequests
    THEN [outcome |-> "reject429", count |-> cur, ttl |-> ttl, failed |-> FALSE]
    ELSE IF fault = "write"
    THEN [outcome |-> "admit", count |-> cur, ttl |-> ttl, failed |-> TRUE]
    ELSE [outcome |-> "admit", count |-> cur + 1, ttl |-> ttl, failed |-> FALSE]

RateLimitFailClosed(cur, ttl, fault) ==
    IF fault = "get"
    THEN [outcome |-> "reject429", count |-> cur, ttl |-> ttl, failed |-> TRUE]
    ELSE IF cur = 0
    THEN IF fault = "write"
         THEN [outcome |-> "reject429", count |-> cur, ttl |-> ttl, failed |-> TRUE]
         ELSE [outcome |-> "admit", count |-> 1, ttl |-> RateLimitWindow,
               failed |-> FALSE]
    ELSE IF cur >= RateLimitRequests
    THEN [outcome |-> "reject429", count |-> cur, ttl |-> ttl, failed |-> FALSE]
    ELSE IF fault = "write"
    THEN [outcome |-> "reject429", count |-> cur, ttl |-> ttl, failed |-> TRUE]
    ELSE [outcome |-> "admit", count |-> cur + 1, ttl |-> ttl, failed |-> FALSE]

RateLimitMiddleware(cur, ttl, fault) ==
    IF fault = "get"
    \* redis_client.get raises: except Exception: pass
    THEN [outcome |-> "admit", count |-> cur, ttl |-> ttl, failed |-> TRUE]
    ELSE IF cur = 0
    \* current_requests is None: setex(key, window, 1)
    THEN IF fault = "write"
         THEN [outcome |-> "admit", count |-> cur, ttl |-> ttl, failed |-> TRUE]
         ELSE [outcome |-> "admit", count |-> 1, ttl |-> RateLimitWindow,
               failed |-> FALSE]
    ELSE IF cur >= RateLimitRequests
    \* raise HTTPException(429), re-raised by except HTTPException
    THEN [outcome |-> "reject429", count |-> cur, ttl |-> ttl, failed |-> FALSE]
    ELSE IF fault = "write"
    THEN [outcome |-> "admit", count |-> cur, ttl |-> ttl, failed |-> TRUE]
    \* redis_client.incr leaves the key's expiry as it is
    ELSE [outcome |-> "admit", count |-> cur + 1, ttl |-> ttl, failed |-> FALSE]

\* The bookkeeping of one call of client c with result r: n counts the calls
\* since the key was last absent, faulty whether the store failed in one.
RlWinAfter(c, r) ==
    LET w == rlWin[c]
        started == rlCount[c] > 0 \/ r.count > 0
    IN  IF ~started
        THEN [n |-> 0, faulty |-> FALSE, age |-> 0, last |-> r.outcome]
        ELSE [n |-> w.n + 1, faulty |-> w.faulty \/ r.failed, age |-> w.age,
              last |-> r.outcome]

\* The rate-limit stage of one request of client c, with result r.
RateLimitStep(c, fault, r) ==
    /\ rlCount' = [rlCount EXCEPT ![c] = r.count]
    /\ rlTtl' = [rlTtl EXCEPT ![c] = r.ttl]
    /\ rlWin' = [rlWin EXCEPT ![c] = RlWinAfter(c, r)]
    /\ rlLast' = [client |-> c, pre |-> rlCount[c], fault |-> fault,
                  failed |-> r.failed, outcome |-> r.outcome]

\* A client may issue its next request (the model's cap on one window).
MayRequest(c) == rlWin[c].n < RateLimitRequests + MaxOverLimit

\* One unit of time passes in the store: every key with an expiry loses a
\* unit and is deleted when none is left.
ExpireRlKeys ==
    /\ rlTtl' = [c \in Clients |-> IF rlTtl[c] > 0 THEN rlTtl[c] - 1 ELSE rlTtl[c]]
    /\ rlCount' = [c \in Clients |-> IF rlTtl[c] = 1 THEN 0 ELSE rlCount[c]]

ExpireRl ==
    /\ ExpireRlKeys
    /\ rlWin' = [c \in Clients |->
                    IF rlTtl[c] = 1
                    THEN [n |-> 0, faulty |-> FALSE, age |-> 0, last |-> "none"]
                    ELSE IF rlCount[c] > 0
                    THEN [rlWin[c] EXCEPT !.age = @ + 1]
                    ELSE rlWin[c]]

\* Gateway workers that share the store, each running one call at a time.
Workers == {"w1", "w2"}
IdleTask == [pc |-> "idle", client |-> "", cur |-> 0]

\* What rate_limit_middleware does after redis_client.get returned cur (0 for
\* None): setex, raise 429, or incr.
RateLimitAfterGet(cur) ==
    IF cur = 0 THEN "setex"
    ELSE IF cur >= RateLimitRequests THEN "reject429"
    ELSE "incr"

\* redis INCR on a key as it is when the command arrives: an absent key is
\* created with value 1 and no expiry, an existing one keeps its expiry.
RedisIncr(count, ttl) ==
    IF count = 0 THEN [count |-> 1, ttl |-> -1]
    ELSE [count |-> count + 1, ttl |-> ttl]

\* Worker w starts rate_limit_middleware for client c: redis_client.get.
RateLimitGet(w, c) ==
    /\ rlTask[w].pc = "idle"
    /\ rlTask' = [rlTask EXCEPT ![w] = [pc |-> "got", client |-> c,
                                        cur |-> rlCount[c]]]
    /\ rlUnit' = [rlUnit EXCEPT ![c].started = @ + 1]
    /\ UNCHANGED <<rlCount, rlTtl, rlWin, rlLast>>

\* Worker w goes on after its get: the second store operation of the call,
\* or the 429.
RateLimitFinish(w) ==
    LET c == rlTask[w].client
        op == RateLimitAfterGet(rlTask[w].cur)
        k == RedisIncr(rlCount[c], rlTtl[c])
    IN  /\ rlTask[w].pc = "got"
        /\ rlCount' = [rlCount EXCEPT ![c] = IF op = "setex" THEN 1
                                             ELSE IF op = "incr" THEN k.count
                                             ELSE @]
        /\ rlTtl' = [rlTtl EXCEPT ![c] = IF op = "setex" THEN RateLimitWindow
                                           ELSE IF op = "incr" THEN k.ttl
                                           ELSE @]
        /\ rlTask' = [rlTask EXCEPT ![w] = IdleTask]
        /\ rlUnit' = [rlUnit EXCEPT ![c].admitted =
                          IF op = "reject429" THEN @ ELSE @ + 1]
        /\ UNCHANGED <<rlWin, rlLast>>

InitRl ==
    /\ rlTask = [w \in Workers |-> IdleTask]
    /\ rlUnit = [c \in Clients |-> [started |-> 0, admitted |-> 0]]
    /\ rlCount = [c \in Clients |-> 0]
    /\ rlTtl = [c \in Clients |-> 0]
    /\ rlWin = [c \in Clients |->
                   [n |-> 0, faulty |-> FALSE, age |-> 0, last |-> "none"]]
    /\ rlLast = [client |-> "none", pre |-> 0, fault |-> "none",
                 failed |-> FALSE, outcome |-> "none"]

(***************************************************************************)
(* auth_middleware.verify_token and blacklist_token.                        *)
(***************************************************************************)
authVars == <<tokLife, blTtl, authLast, authSeen, blCalled>>

\* Bearer tokens a request may carry: signed with the gateway's key or not,
\* with or without the sub and exp claims.
Tokens == {"tokA", "tokNoExp", "tokBadSig", "tokNoSub"}
TokenSigOk(t) == t # "tokBadSig"
TokenHasSub(t) == t # "tokNoSub"
ExpTokens == {"tokA"}
TokenHasExp(t) == t \in ExpTokens

\* The Authorization header of a request: absent, another scheme, or Bearer.
AuthHeaders == {<<"none", "">>, <<"Basic", "dXNlcg">>} \cup {<<"Bearer", t>> : t \in Tokens}

TokenExpired(t) == TokenHasExp(t) /\ tokLife[t] < 0

\* The body of verify_token's try block: what it returns or raises.
VerifyTokenBody(hdr, fault) ==
    IF hdr[1] = "none"
    THEN [raised |-> "HTTPException", detail |-> "Authorization header missing"]
    ELSE IF hdr[1] # "Bearer"
    THEN [raised |-> "HTTPException", detail |-> "Invalid authorization header format"]
    ELSE IF fault = "get"
    THEN [raised |-> "Exception", detail |-> "redis"]
    ELSE IF blTtl[hdr[2]] # 0
    THEN [raised |-> "HTTPException", detail |-> "Token has been revoked"]
    \* jwt.decode checks the signature and, by default, the exp claim
    ELSE IF ~TokenSigOk(hdr[2]) \/ TokenExpired(hdr[2])
    THEN [raised |-> "JWTError", detail |-> "jwt"]
    ELSE IF ~TokenHasSub(hdr[2])
    THEN [raised |-> "HTTPException", detail |-> "Invalid token payload"]
    ELSE IF TokenExpired(hdr[2])
    THEN [raised |-> "HTTPException", detail |-> "Token has expired"]
    ELSE [raised |-> "none", detail |-> "payload"]

\* A verifier that lets a request without an Authorization header pass.
VerifyTokenNoHeaderOk(hdr, fault) ==
    LET b == VerifyTokenBody(hdr, fault)
    IN  IF b.raised = "none" \/ hdr[1] = "none"
        THEN [ok |-> TRUE, status |-> 200, detail |-> ""]
        ELSE IF b.raised = "JWTError"
        THEN [ok |-> FALSE, status |-> 401, detail |-> "Invalid token"]
        ELSE [ok |-> FALSE, status |-> 401, detail |-> "Authentication failed"]

\* A verifier that accepts the token when the revocation store cannot be read.
VerifyTokenStoreFailOpen(hdr, fault) ==
    LET b == VerifyTokenBody(hdr, fault)
    IN  IF b.raised = "none" \/ b.raised = "Exception"
        THEN [ok |-> TRUE, status |-> 200, detail |-> ""]
        ELSE IF b.raised = "JWTError"
        THEN [ok |-> FALSE, status |-> 401, detail |-> "Invalid token"]
        ELSE [ok |-> FALSE, status |-> 401, detail |-> "Authentication failed"]

\* verify_token: except JWTError, then except Exception, which also catches
\* the HTTPExceptions the body raised.
VerifyToken(hdr, fault) ==
    LET b == VerifyTokenBody(hdr, fault)
    IN  IF b.raised = "none" THEN [ok |-> TRUE, status |-> 200, detail |-> ""]
        ELSE IF b.raised = "JWTError"
        THEN [ok |-> FALSE, status |-> 401, detail |-> "Invalid token"]
        ELSE [ok |-> FALSE, status |-> 401, detail |-> "Authentication failed"]

\* Why a request's credential is not acceptable, read off the request and the
\* store, in the order verify_token examines them ("valid": it is acceptable).
AuthCause(hdr, fault) ==
    IF hdr[1] = "none" THEN "missing"
    ELSE IF hdr[1] # "Bearer" THEN "format"
    ELSE IF fault = "get" THEN "store_fault"
    ELSE IF blTtl[hdr[2]] # 0 THEN "revoked"
    ELSE IF ~TokenSigOk(hdr[2]) THEN "malformed"
    ELSE IF TokenExpired(hdr[2]) THEN "expired"
    ELSE IF ~TokenHasSub(hdr[2]) THEN "nosub"
    ELSE "valid"

Causes == {"missing", "format", "store_fault", "revoked", "malformed", "expired",
           "nosub"}

\* verify_token called for a request carrying hdr.
VerifyCall(hdr, fault) ==
    LET v == VerifyToken(hdr, fault)
        k == AuthCause(hdr, fault)
    IN  /\ authLast' = [hdr |-> hdr, cause |-> k, ok |-> v.ok, status |-> v.status,
                        detail |-> v.detail]
        /\ authSeen' = IF k \in Causes /\ ~v.ok
                       THEN [authSeen EXCEPT ![k] = v.detail]
                       ELSE authSeen
        /\ UNCHANGED <<tokLife, blTtl, blCalled>>

\* blacklist_token(t): decode without the exp check, then setex with the
\* token's remaining lifetime (at least 1); every exception is logged only.
BlacklistToken(t, fault) ==
    /\ blTtl' = IF ~TokenSigOk(t) \/ fault = "write"
                THEN blTtl
                ELSE [blTtl EXCEPT ![t] =
                         IF TokenHasExp(t)
                         THEN (IF tokLife[t] > 1 THEN tokLife[t] ELSE 1)
                         ELSE DefaultBlacklistTtl]
    /\ blCalled' = blCalled \cup {t}
    /\ UNCHANGED <<tokLife, authLast, authSeen>>

ExpireAuth ==
    /\ tokLife' = [t \in ExpTokens |-> IF tokLife[t] >= 0 THEN tokLife[t] - 1
                                       ELSE tokLife[t]]
    /\ blTtl' = [t \in Tokens |-> IF blTtl[t] > 0 THEN blTtl[t] - 1 ELSE blTtl[t]]

InitAuth ==
    /\ tokLife = [t \in ExpTokens |-> AccessTokenExpire]
    /\ blTtl = [t \in Tokens |-> 0]
    /\ authLast = [hdr |-> <<"none", "">>, cause |-> "none", ok |-> FALSE,
                   status |-> 0, detail |-> ""]
    /\ authSeen = [k \in Causes |-> "none"]
    /\ blCalled = {}

(***************************************************************************)
(* service_discovery.ServiceDiscovery.                                      *)
(***************************************************************************)
sdHist == <<sdLast, deregistered>>
sdVars == <<services, redisSvc, loopTime, failStreak, inflight, sdHist>>

\* Probes the model lets the event loop time.
MaxProbes == 3
\* Probe times the model of the tracked registry runs through.
MaxRounds == 1

\* Names a caller registers, and every name the route table or the gateway uses.
RegNames == {"user-service", "metrics-collector"}
ServiceNames == {"user-service", "metrics-collector", "alert-manager",
                 "dashboard-service", "cost-analyzer", "ml-predictor",
                 "report-generator", "notification-service",
                 "configuration-service", "api-gateway"}
\* (host, port) pairs a service is registered at.
Endpoints == {<<"user-service", 8001>>, <<"0.0.0.0", 8000>>}
HealthPaths == {"/health"}

\* f"http://{host}:{port}"
Url(host, port) == <<"http://", host, ":", port>>

\* d[k] = v in a dict d.
DictSet(d, k, v) == [x \in DOMAIN d \cup {k} |-> IF x = k THEN v ELSE d[x]]
\* del d[k]
DictDel(d, k) == [x \in DOMAIN d \ {k} |-> d[x]]
EmptyDict == [x \in {} |-> 0]

\* What a probe's GET on the health path ends with.
ProbeOutcomes == {"200", "503", "timeout", "connect_error"}

\* A registration that keeps the liveness and the probe time of the entry it
\* replaces.
RegisterServiceKeepLiveness(S, R, name, host, port, path, fault) ==
    [services |-> DictSet(S, name,
                    [name |-> name, host |-> host, port |-> port,
                     url |-> Url(host, port), health_check_url |-> path,
                     status |-> IF name \in DOMAIN S THEN S[name].status
                                ELSE "unknown",
                     last_check |-> IF name \in DOMAIN S THEN S[name].last_check
                                    ELSE 0]),
     redis |-> R,
     raised |-> fault = "write"]

\* register_service: the in-memory entry, then hset of the five fields (which
\* raises when the store fails, the entry already written).
RegisterService(S, R, name, host, port, path, fault) ==
    [services |-> DictSet(S, name,
                    [name |-> name, host |-> host, port |-> port,
                     url |-> Url(host, port), health_check_url |-> path,
                     status |-> "unknown", last_check |-> 0]),
     redis |-> IF fault = "write" THEN R
               ELSE DictSet(R, name,
                     LET old == IF name \in DOMAIN R THEN R[name] ELSE EmptyDict
                         new == [host |-> host, port |-> port,
                                 url |-> Url(host, port),
                                 health_check_url |-> path,
                                 status |-> "registered"]
                     IN  [f \in DOMAIN old \cup DOMAIN new |->
                             IF f \in DOMAIN new THEN new[f] ELSE old[f]]),
     raised |-> fault = "write"]

\* A deregistration that forgets the hash of the name in the store.
DeregisterServiceMemoryOnly(S, R, name, fault) ==
    [services |-> IF name \in DOMAIN S THEN DictDel(S, name) ELSE S,
     redis |-> R,
     raised |-> fault = "write"]

\* deregister_service: del self.services[name] if present, then redis delete.
DeregisterService(S, R, name, fault) ==
    [services |-> IF name \in DOMAIN S THEN DictDel(S, name) ELSE S,
     redis |-> IF fault = "write" THEN R ELSE DictDel(R, name),
     raised |-> fault = "write"]

\* get_service_url: the in-memory entry when healthy, else whatever url the
\* redis hash of the name holds (hgetall raising when the store fails).
GetServiceUrl(S, R, name, fault) ==
    IF name \in DOMAIN S /\ S[name].status = "healthy"
    THEN [kind |-> "url", url |-> S[name].url]
    ELSE IF fault = "get"
    THEN [kind |-> "raise", url |-> <<>>]
    ELSE IF name \in DOMAIN R /\ DOMAIN R[name] # {}
    THEN IF "url" \in DOMAIN R[name]
         THEN [kind |-> "url", url |-> R[name].url]
         ELSE [kind |-> "none", url |-> <<>>]
    ELSE [kind |-> "none", url |-> <<>>]

\* hset(f"service:{name}", "status", v)
HsetStatus(R, name, v) ==
    DictSet(R, name,
            DictSet(IF name \in DOMAIN R THEN R[name] ELSE EmptyDict, "status", v))

\* health_check(name) at loop time t.  fault "write": every hset of the call
\* raises; "write_once": only the first one does.
HealthCheck(S, R, name, probe, fault, t) ==
    IF name \notin DOMAIN S
    THEN [services |-> S, redis |-> R, result |-> FALSE, raised |-> FALSE]
    ELSE LET is_healthy == probe = "200"
             st == IF is_healthy THEN "healthy" ELSE "unhealthy"
             set(v) == DictSet(S, name, [S[name] EXCEPT !.status = v,
                                                         !.last_check = t])
         IN  IF probe \in {"200", "503"} /\ fault = "none"
             THEN [services |-> set(st), redis |-> HsetStatus(R, name, st),
                   result |-> is_healthy, raised |-> FALSE]
             \* the except branch: after a failed GET, or after the first hset raised
             ELSE IF fault = "write"
             THEN [services |-> set("unhealthy"), redis |-> R,
                   result |-> FALSE, raised |-> TRUE]
             ELSE [services |-> set("unhealthy"),
                   redis |-> HsetStatus(R, name, "unhealthy"),
                   result |-> FALSE, raised |-> FALSE]

\* health_check(name) from the point where its GET returns, at loop time t.
\* live: the dict the coroutine took from self.services before the GET is
\* still the entry of name; otherwise its assignments go to a dict the
\* registry no longer holds, and only the hset reaches shared state.
HealthCheckResume(S, R, name, live, probe, fault, t) ==
    IF live THEN HealthCheck(S, R, name, probe, fault, t)
    ELSE LET is_healthy == probe = "200"
             st == IF is_healthy THEN "healthy" ELSE "unhealthy"
         IN  IF probe \in {"200", "503"} /\ fault = "none"
             THEN [services |-> S, redis |-> HsetStatus(R, name, st),
                   result |-> is_healthy, raised |-> FALSE]
             ELSE IF fault = "write"
             THEN [services |-> S, redis |-> R, result |-> FALSE, raised |-> TRUE]
             ELSE [services |-> S, redis |-> HsetStatus(R, name, "unhealthy"),
                   result |-> FALSE, raised |-> FALSE]

\* list_services: one item per entry of self.services.
ListServices(S) ==
    {[name |-> n, url |-> S[n].url, status |-> S[n].status,
      last_check |-> S[n].last_check] : n \in DOMAIN S}

\* Orders in which the coroutines of one gather can reach their end.
Orders(names) ==
    {o \in [1..Cardinality(names) -> names] :
        \A i, j \in 1..Cardinality(names) : i # j => o[i] # o[j]}

\* A round of probes in which the first exception of a health_check ends the
\* round and reaches the caller.
RECURSIVE HealthCheckAllPropagating(_, _, _, _, _, _)
HealthCheckAllPropagating(S, R, order, probes, faults, t) ==
    IF order = << >>
    THEN [services |-> S, redis |-> R, raised |-> FALSE]
    ELSE LET n == Head(order)
             r == HealthCheck(S, R, n, probes[n], faults[n], t)
         IN  IF r.raised
             THEN [services |-> r.services, redis |-> r.redis, raised |-> TRUE]
             ELSE HealthCheckAllPropagating(r.services, r.redis, Tail(order),
                                            probes, faults, t)

\* health_check_all: one health_check per name of self.services, gathered
\* with return_exceptions=True; order is the order in which they finish.
RECURSIVE HealthCheckAll(_, _, _, _, _, _)
HealthCheckAll(S, R, order, probes, faults, t) ==
    IF order = << >>
    THEN [services |-> S, redis |-> R, raised |-> FALSE]
    ELSE LET n == Head(order)
             r == HealthCheck(S, R, n, probes[n], faults[n], t)
         IN  HealthCheckAll(r.services, r.redis, Tail(order), probes, faults, t)

NoCall == [op |-> "none", name |-> "", had |-> FALSE, raised |-> FALSE]

InitSd ==
    /\ services = EmptyDict
    /\ redisSvc = EmptyDict
    /\ loopTime = 0
    /\ failStreak = [n \in ServiceNames |-> 0]
    /\ sdLast = NoCall
    /\ deregistered = {}
    /\ inflight = [n \in RegNames |-> "none"]

\* register_service called by a client of the registry.
Register(name, ep, path, fault) ==
    LET r == RegisterService(services, redisSvc, name, ep[1], ep[2], path, fault)
    IN  /\ services' = r.services
        /\ redisSvc' = r.redis
        /\ UNCHANGED loopTime

\* deregister_service called by a client of the registry.
Deregister(name, fault) ==
    LET r == DeregisterService(services, redisSvc, name, fault)
    IN  /\ services' = r.services
        /\ redisSvc' = r.redis
        /\ UNCHANGED loopTime

\* health_check(name) run to its end.
Probe(name, probe, fault) ==
    /\ LET r == HealthCheck(services, redisSvc, name, probe, fault, loopTime + 1)
       IN  /\ services' = r.services
           /\ redisSvc' = r.redis
    /\ loopTime' = loopTime + 1

\* History: the failed probes in a row of each name, after a probe of name.
StreakAfterProbe(name, probe) ==
    [failStreak EXCEPT ![name] =
        IF name \notin DOMAIN services THEN @
        ELSE IF probe = "200" THEN 0
        ELSE IF @ < 3 THEN @ + 1 ELSE @]

\* health_check_all run to its end: every coroutine with its own probe
\* outcome and its own store fault.
ProbeAll(order, probes, faults) ==
    /\ LET r == HealthCheckAll(services, redisSvc, order, probes, faults,
                               loopTime + 1)
       IN  /\ services' = r.services
           /\ redisSvc' = r.redis
    /\ loopTime' = loopTime + 1

(***************************************************************************)
(* load_balancer.LoadBalancer.                                              *)
(***************************************************************************)
lbVars == <<total_requests, request_counts, response_times, error_counts,
            recorded, rrRun, sentTo>>

\* The response-time samples kept per service (record_request's bound).
MaxSamples == 100
\* Calls of record_request the model runs: for one service in all, for every
\* other service, and with is_error per service.
MaxRecords == 150
MaxOther == 2
MaxErrors == 1
\* Selections the model counts within one run.
MaxSelections == 4
\* Proxied calls the model reports per instance.
MaxProxied == 3

LbServices == {"user-service", "metrics-collector"}
LongService == "user-service"
InstanceLists == {<< >>, <<"http://a:8001">>,
                  <<"http://a:8001", "http://b:8001">>,
                  <<"http://a:8001", "http://b:8001", "http://c:8001">>}
Algorithms == {"round_robin", "random", "least_connections", "weighted"}

\* d.get(k, default)
DictGet(d, k, default) == IF k \in DOMAIN d THEN d[k] ELSE default

RECURSIVE SeqSum(_)
SeqSum(q) == IF q = << >> THEN 0 ELSE q[1] + SeqSum(Tail(q))

\* record_request that evicts only once the list is longer than the bound.
RecordRequestLateEvict(lb, service_name, response_time, is_error) ==
    LET times == DictGet(lb.response_times, service_name, << >>)
        kept == IF Len(times) > MaxSamples THEN Tail(times) ELSE times
    IN  [total_requests |-> lb.total_requests + 1,
         request_counts |-> DictSet(lb.request_counts, service_name,
                              DictGet(lb.request_counts, service_name, 0) + 1),
         response_times |-> DictSet(lb.response_times, service_name,
                              Append(kept, response_time)),
         error_counts |-> IF is_error
                          THEN DictSet(lb.error_counts, service_name,
                                 DictGet(lb.error_counts, service_name, 0) + 1)
                          ELSE lb.error_counts]

\* record_request: the counters, then the sample list with its oldest sample
\* popped once it holds the bound, then the error counter.
RecordRequest(lb, service_name, response_time, is_error) ==
    LET times == DictGet(lb.response_times, service_name, << >>)
        kept == IF Len(times) >= MaxSamples THEN Tail(times) ELSE times
    IN  [total_requests |-> lb.total_requests + 1,
         request_counts |-> DictSet(lb.request_counts, service_name,
                              DictGet(lb.request_counts, service_name, 0) + 1),
         response_times |-> DictSet(lb.response_times, service_name,
                              Append(kept, response_time)),
         error_counts |-> IF is_error
                          THEN DictSet(lb.error_counts, service_name,
                                 DictGet(lb.error_counts, service_name, 0) + 1)
                          ELSE lb.error_counts]

\* get_average_response_time(service_name) as the fraction num/den it
\* evaluates (0.0 is 0/1).
GetAverageResponseTime(times, service_name) ==
    LET q == DictGet(times, service_name, << >>)
    IN  IF q # << >> THEN [num |-> SeqSum(q), den |-> Len(q)]
        ELSE [num |-> 0, den |-> 1]

\* get_error_rate(service_name) as the fraction num/den it evaluates.
GetErrorRate(counts, errors, service_name) ==
    LET e == DictGet(errors, service_name, 0)
        n == DictGet(counts, service_name, 0)
    IN  IF n > 0 THEN [num |-> e * 100, den |-> n] ELSE [num |-> 0, den |-> 1]

\* get_health_score(service_name) as a fraction: error_score over the
\* denominator of the error rate, time_score over ten times that of the
\* average, their mean over the product, capped at 100.
GetHealthScore(counts, errors, times, service_name) ==
    LET error_rate == GetErrorRate(counts, errors, service_name)
        avg_response_time == GetAverageResponseTime(times, service_name)
        max0(x) == IF x > 0 THEN x ELSE 0
        error_score == max0(100 * error_rate.den - error_rate.num * 2)
        time_score == max0(1100 * avg_response_time.den - avg_response_time.num)
        den == 20 * error_rate.den * avg_response_time.den
        num == error_score * 10 * avg_response_time.den + time_score * error_rate.den
    IN  [num |-> IF num < 100 * den THEN num ELSE 100 * den, den |-> den]

\* The least_connections loop: the first instance with the fewest requests.
LeastConnections(instances, counts) ==
    LET c(i) == DictGet(counts, instances[i], 0)
        best == CHOOSE i \in 1..Len(instances) :
                    /\ \A j \in 1..Len(instances) : c(i) <= c(j)
                    /\ \A j \in 1..(i - 1) : c(j) > c(i)
    IN  instances[best]

\* select_instance: the instances the call may return ({"ValueError"}: it
\* raises).
SelectInstance(instances, algorithm, total, counts) ==
    IF instances = << >> THEN {"ValueError"}
    ELSE IF Len(instances) = 1 THEN {instances[1]}
    ELSE IF algorithm = "round_robin"
    THEN {instances[(total % Len(instances)) + 1]}
    ELSE IF algorithm = "random"
    THEN {instances[i] : i \in 1..Len(instances)}
    ELSE IF algorithm = "least_connections"
    THEN {LeastConnections(instances, counts)}
    ELSE {instances[(total % Len(instances)) + 1]}

NoRun == [list |-> << >>, m |-> 0, picks |-> EmptyDict]

InitLb ==
    /\ total_requests = 0
    /\ request_counts = EmptyDict
    /\ response_times = EmptyDict
    /\ error_counts = EmptyDict
    /\ recorded = EmptyDict
    /\ rrRun = NoRun
    /\ sentTo = EmptyDict

\* The k-th sample fed for a service: samples are numbered per service, so
\* that which samples are kept, and in which order, shows in the state.
NextSample(s) ==
    (IF s = LongService THEN 0 ELSE 1000) + Len(DictGet(recorded, s, << >>)) + 1

\* record_request(s, t, e) called on the load balancer.
Record(s, t, e) ==
    LET lb == RecordRequest([total_requests |-> total_requests,
                             request_counts |-> request_counts,
                             response_times |-> response_times,
                             error_counts |-> error_counts], s, t, e)
    IN  /\ total_requests' = lb.total_requests
        /\ request_counts' = lb.request_counts
        /\ response_times' = lb.response_times
        /\ error_counts' = lb.error_counts
        /\ recorded' = DictSet(recorded, s, Append(DictGet(recorded, s, << >>), t))
        /\ rrRun' = NoRun

\* select_instance(instances, algorithm) called on the load balancer.
Select(instances, algorithm) ==
    \E r \in SelectInstance(instances, algorithm, total_requests, request_counts) :
        /\ rrRun' = IF algorithm # "round_robin" \/ r = "ValueError"
                    THEN NoRun
                    ELSE IF rrRun.list = instances
                    THEN [rrRun EXCEPT !.m = @ + 1,
                                       !.picks = DictSet(@, r, DictGet(@, r, 0) + 1)]
                    ELSE [list |-> instances, m |-> 1, picks |-> DictSet(EmptyDict, r, 1)]
        /\ UNCHANGED <<total_requests, request_counts, response_times,
                       error_counts, recorded>>

(***************************************************************************)
(* main: the route table, the middleware and proxy_request.                 *)
(***************************************************************************)
gwVars == <<phase, resp, proxyAttempts, exchange>>

\* Outbound calls the model counts.
MaxAttempts == 1

\* A path is the sequence of its pieces, "/metrics/query" being
\* <<"/metrics", "/query">>; no piece is a prefix of another, so that
\* str.startswith is the prefix order of sequences.
StartsWith(path, prefix) ==
    /\ Len(prefix) <= Len(path)
    /\ SubSeq(path, 1, Len(prefix)) = prefix

\* SERVICE_ROUTES, in the order the dict is written.
SERVICE_ROUTES ==
    << <<<<"/auth">>, "user-service">>,
       <<<<"/users">>, "user-service">>,
       <<<<"/metrics">>, "metrics-collector">>,
       <<<<"/alerts">>, "alert-manager">>,
       <<<<"/dashboards">>, "dashboard-service">>,
       <<<<"/costs">>, "cost-analyzer">>,
       <<<<"/ml">>, "ml-predictor">>,
       <<<<"/reports">>, "report-generator">>,
       <<<<"/notifications">>, "notification-service">>,
       <<<<"/config">>, "configuration-service">> >>

PUBLIC_ENDPOINTS ==
    << <<"/auth", "/login">>, <<"/auth", "/register">>, <<"/health">>,
       <<"/docs">>, <<"/redoc">>, <<"/openapi.json">> >>

\* The paths of the requests the model sends through the catch-all route.
Paths == {<<"/auth", "/login">>, <<"/metrics", "/query">>, <<"/alerts">>,
          <<"/unknown">>}

\* A router that sends every path no route matches to the first service.
FindTargetServiceDefault(path) ==
    LET hits == {i \in 1..Len(SERVICE_ROUTES) : StartsWith(path, SERVICE_ROUTES[i][1])}
    IN  IF hits = {} THEN SERVICE_ROUTES[1][2]
        ELSE SERVICE_ROUTES[CHOOSE i \in hits : \A j \in hits : i <= j][2]

\* find_target_service: the service of the first route whose prefix the path
\* starts with ("": None).
FindTargetService(path) ==
    LET hits == {i \in 1..Len(SERVICE_ROUTES) : StartsWith(path, SERVICE_ROUTES[i][1])}
    IN  IF hits = {} THEN ""
        ELSE SERVICE_ROUTES[CHOOSE i \in hits : \A j \in hits : i <= j][2]

\* is_public_endpoint
IsPublicEndpoint(path) ==
    \E i \in 1..Len(PUBLIC_ENDPOINTS) : StartsWith(path, PUBLIC_ENDPOINTS[i])

\* How the outbound call ends: a response with a status, or an exception of
\* httpx (TimeoutException, ConnectError) or any other one.
Downstream == {[kind |-> "response", status |-> 200],
               [kind |-> "response", status |-> 500],
               [kind |-> "timeout", status |-> 0],
               [kind |-> "connect_error", status |-> 0],
               [kind |-> "error", status |-> 0]}

\* The store operation that raises during one request (at most one does, and
\* then the outbound call, if reached, answers 200).
PipelineFaults == {"none", "rl_get", "rl_write", "auth_get", "sd_get",
                   "sd_timeout"}
\* The faults with which hgetall of get_service_url raises, and str(e) of the
\* exception each one raises (redis ConnectionError, redis TimeoutError).
ResolveFaults == {"sd_get", "sd_timeout"}
ExceptionText(fault) ==
    IF fault = "sd_get" THEN "Error 111 connecting to redis:6379. Connection refused."
    ELSE IF fault = "sd_timeout" THEN "Timeout reading from socket"
    ELSE ""
\* The Authorization headers of the requests sent through the pipeline.
PipelineHeaders == {<<"none", "">>, <<"Bearer", "tokA">>}

\* The liveness the registry holds for a name in memory.
Liveness(name) ==
    IF name \in DOMAIN services THEN services[name].status ELSE "absent"

\* proxy_request with the handlers of timeout and connection error exchanged.
ProxyRequestSwapped(path, fault, down) ==
    LET service_name == FindTargetService(path)
        g == GetServiceUrl(services, redisSvc, service_name, fault)
        out(kind, status, detail, fwd) ==
            [kind |-> kind, status |-> status, detail |-> detail,
             target |-> service_name, forwarded |-> fwd]
    IN  IF service_name = "" THEN out("HTTPException", 404, "Service not found", FALSE)
        ELSE IF g.kind = "raise" THEN out("Exception", 0, "redis", FALSE)
        ELSE IF g.kind = "none"
        THEN out("HTTPException", 503, "Service unavailable", FALSE)
        ELSE IF down.kind = "timeout"
        THEN out("HTTPException", 503, "Service unavailable", TRUE)
        ELSE IF down.kind = "connect_error"
        THEN out("HTTPException", 504, "Service timeout", TRUE)
        ELSE IF down.kind = "error"
        THEN out("HTTPException", 500, "Internal server error", TRUE)
        ELSE out("response", down.status, "downstream body", TRUE)

\* proxy_request(path): route, resolve, forward, and the mapping of what the
\* outbound call ends with.  kind is how the handler ends: with a response,
\* with an HTTPException (status, detail) or with another exception.
ProxyRequest(path, fault, down) ==
    LET service_name == FindTargetService(path)
        g == GetServiceUrl(services, redisSvc, service_name, fault)
        out(kind, status, detail, fwd) ==
            [kind |-> kind, status |-> status, detail |-> detail,
             target |-> service_name, forwarded |-> fwd]
    IN  IF service_name = "" THEN out("HTTPException", 404, "Service not found", FALSE)
        \* hgetall raises outside the try block
        ELSE IF g.kind = "raise" THEN out("Exception", 0, "redis", FALSE)
        ELSE IF g.kind = "none"
        THEN out("HTTPException", 503, "Service unavailable", FALSE)
        ELSE IF down.kind = "timeout"
        THEN out("HTTPException", 504, "Service timeout", TRUE)
        ELSE IF down.kind = "connect_error"
        THEN out("HTTPException", 503, "Service unavailable", TRUE)
        ELSE IF down.kind = "error"
        THEN out("HTTPException", 500, "Internal server error", TRUE)
        ELSE out("response", down.status, "downstream body", TRUE)

\* A middleware that verifies the token before it asks the rate limiter.
GatewayMiddlewareAuthFirst(r, path, hdr, fault, down) ==
    LET public == IsPublicEndpoint(path)
        v == VerifyToken(hdr, IF fault = "auth_get" THEN "get" ELSE "none")
        p == ProxyRequest(path, IF fault \in ResolveFaults THEN "get" ELSE "none",
                          down)
        base == [path |-> path, public |-> public,
                 cause |-> AuthCause(hdr, IF fault = "auth_get" THEN "get" ELSE "none"),
                 fault |-> fault, down |-> down.kind]
        end(stages, status, via, detail, handler, target, fwd) ==
            [base EXCEPT !.down = IF fwd THEN down.kind ELSE "none"] @@
            [stages |-> stages, status |-> status, via |-> via, detail |-> detail,
             limiter |-> r.outcome,
             message |-> IF handler = "Exception" THEN ExceptionText(fault) ELSE "",
             handler |-> handler, target |-> target,
             targetStatus |-> Liveness(target), forwarded |-> fwd]
    IN  IF ~public /\ ~v.ok
        THEN end(<<"verify_token">>, v.status, "raised", v.detail,
                 "none", "", FALSE)
        ELSE IF r.outcome = "reject429"
        THEN end(<<"verify_token", "rate_limit">>, 429, "raised",
                 "Rate limit exceeded", "none", "", FALSE)
        ELSE LET stages == IF public THEN <<"rate_limit", "proxy_request">>
                           ELSE <<"rate_limit", "verify_token", "proxy_request">>
             IN  IF p.kind = "Exception"
                 \* except Exception: JSONResponse(500, {"error": "Internal
                 \* server error", "message": str(e)})
                 THEN end(stages, 500, "returned", "Internal server error",
                          p.kind, p.target, FALSE)
                 ELSE end(stages, p.status, "returned", p.detail, p.kind,
                          p.target, p.forwarded)

\* gateway_middleware around the route handler, for a request of client c
\* whose rate-limit stage ended with r.  via tells how the response comes
\* about: "raised" is an HTTPException leaving the middleware, "returned" a
\* response object (an HTTPException of the route handler is turned into its
\* response before the middleware sees it).
GatewayMiddleware(r, path, hdr, fault, down) ==
    LET public == IsPublicEndpoint(path)
        v == VerifyToken(hdr, IF fault = "auth_get" THEN "get" ELSE "none")
        p == ProxyRequest(path, IF fault \in ResolveFaults THEN "get" ELSE "none",
                          down)
        base == [path |-> path, public |-> public,
                 cause |-> AuthCause(hdr, IF fault = "auth_get" THEN "get" ELSE "none"),
                 fault |-> fault, down |-> down.kind]
        end(stages, status, via, detail, handler, target, fwd) ==
            [base EXCEPT !.down = IF fwd THEN down.kind ELSE "none"] @@
            [stages |-> stages, status |-> status, via |-> via, detail |-> detail,
             limiter |-> r.outcome,
             message |-> IF handler = "Exception" THEN ExceptionText(fault) ELSE "",
             handler |-> handler, target |-> target,
             targetStatus |-> Liveness(target), forwarded |-> fwd]
    IN  IF r.outcome = "reject429"
        THEN end(<<"rate_limit">>, 429, "raised", "Rate limit exceeded", "none", "",
                 FALSE)
        ELSE IF ~public /\ ~v.ok
        THEN end(<<"rate_limit", "verify_token">>, v.status, "raised", v.detail,
                 "none", "", FALSE)
        ELSE LET stages == IF public THEN <<"rate_limit", "proxy_request">>
                           ELSE <<"rate_limit", "verify_token", "proxy_request">>
             IN  IF p.kind = "Exception"
                 \* except Exception: JSONResponse(500, {"error": "Internal
                 \* server error", "message": str(e)})
                 THEN end(stages, 500, "returned", "Internal server error",
                          p.kind, p.target, FALSE)
                 ELSE end(stages, p.status, "returned", p.detail, p.kind,
                          p.target, p.forwarded)

NoResp ==
    [path |-> << >>, public |-> FALSE, cause |-> "none", fault |-> "none",
     down |-> "none", stages |-> << >>, status |-> 0, via |-> "none",
     detail |-> "", limiter |-> "none", message |-> "", handler |-> "none",
     target |-> "",
     targetStatus |-> "absent", forwarded |-> FALSE]

(***************************************************************************)
(* proxy_request: the outbound request and the relayed response.  Texts     *)
(* (urls, bodies) are sequences of pieces, joined by concatenation.         *)
(***************************************************************************)
\* The methods the catch-all route accepts.
Methods == {"GET", "POST", "PUT", "DELETE", "PATCH", "OPTIONS"}
\* Inbound paths (with their leading "/") and raw query strings.
FwdPaths == {<<"/metrics", "/query">>, <<"/users", "/5">>}
Queries == {<< >>, <<"x=1">>}
\* Inbound header dicts (keys in lower case, as request.headers gives them).
ReqHeaders ==
    {[host |-> "gateway:8000", authorization |-> "Bearer tokA"],
     [host |-> "gateway:8000", authorization |-> "Bearer tokA",
      accept |-> "application/json"]}
\* Inbound bodies: none, or a JSON document.
ReqBodies == {<< >>, <<"{\"reason\":\"x\"}">>}
InboundRequests ==
    [method : Methods, path : FwdPaths, query : Queries, headers : ReqHeaders,
     body : ReqBodies]

\* The outbound request proxy_request sends for req to a service at
\* service_url: client.get/delete/options are called without content.
OutboundRequest(req, service_url) ==
    [method |-> req.method,
     url |-> service_url \o req.path
               \o (IF req.query # << >> THEN <<"?">> \o req.query ELSE << >>),
     headers |-> DictDel(req.headers, "host"),
     body |-> IF req.method \in {"POST", "PUT", "PATCH"} THEN req.body ELSE << >>]

\* Downstream bodies: one JSON document in its compact and in a spaced
\* layout, a plain text, and a text that is no JSON.
JsonCompact == <<"{\"a\":1}">>
JsonSpaced == <<"{\"a\": 1}">>
PlainText == <<"OK">>
NotJson == <<"<html>">>

\* response.json(): the value of the document, or a decoding error.
JsonLoads(body) ==
    IF body \in {JsonCompact, JsonSpaced}
    THEN [ok |-> TRUE, value |-> [a |-> 1]]
    ELSE [ok |-> FALSE, value |-> [a |-> 0]]

\* JSONResponse.render of a decoded document (json.dumps with compact
\* separators) and of a str (a JSON string literal).
JsonDumpsValue(value) == IF value = [a |-> 1] THEN JsonCompact ELSE <<"null">>
JsonDumpsStr(text) == <<"\"">> \o text \o <<"\"">>

\* Downstream responses: status, headers and body.
DownHeaders ==
    {[ct |-> c, enc |-> e] : c \in {"application/json", "text/plain"},
                              e \in BOOLEAN}
HeadersOf(h) ==
    IF h.enc
    THEN ("content-type" :> h.ct @@ "x-trace" :> "t1" @@
          "content-encoding" :> "gzip" @@ "transfer-encoding" :> "chunked")
    ELSE ("content-type" :> h.ct @@ "x-trace" :> "t1")
DownResponses ==
    {[status |-> st, headers |-> HeadersOf(h), body |-> b] :
        st \in {200, 404, 500}, h \in DownHeaders,
        b \in {JsonCompact, JsonSpaced, PlainText, NotJson}}

\* What proxy_request makes of a downstream response: a JSONResponse with
\* the status, the content decoded and rendered again when the content type
\* says JSON and the text rendered as a JSON string otherwise, and the
\* headers without content-encoding and transfer-encoding; a body that does
\* not decode raises inside the try block (HTTPException 500).
RelayResponse(down) ==
    LET response_headers ==
            DictDel(DictDel(down.headers, "content-encoding"), "transfer-encoding")
        j == JsonLoads(down.body)
    IN  IF down.headers["content-type"] = "application/json"
        THEN IF j.ok
             THEN [kind |-> "response", status |-> down.status,
                   headers |-> response_headers, body |-> JsonDumpsValue(j.value)]
             ELSE [kind |-> "HTTPException", status |-> 500,
                   headers |-> EmptyDict, body |-> <<"Internal server error">>]
        ELSE [kind |-> "response", status |-> down.status,
              headers |-> response_headers, body |-> JsonDumpsStr(down.body)]

NoExchange ==
    [done |-> FALSE, req |-> "none", out |-> "none", down |-> "none",
     relay |-> "none"]

\* proxy_request for a request whose path has a route and whose service
\* resolves, the outbound call answered by down.
Forward(req, down) ==
    LET service_name == FindTargetService(req.path)
        g == GetServiceUrl(services, redisSvc, service_name, "none")
    IN  /\ phase = "up"
        /\ service_name # ""
        /\ g.kind = "url"
        /\ exchange' = [done |-> TRUE, req |-> req, out |-> OutboundRequest(req, g.url),
                        down |-> down, relay |-> RelayResponse(down)]
        /\ UNCHANGED <<phase, resp, proxyAttempts>>

(***************************************************************************)
(* main: the routes of the application and the /health handler.            *)
(***************************************************************************)
\* The handler that serves a path: "/" and "/health" are declared first, the
\* catch-all "/{path:path}" next, and "/gateway/services" and
\* "/gateway/metrics" after it, where no request reaches them.
RouteHandler(path) ==
    IF path = <<"/">> THEN "root"
    ELSE IF path = <<"/health">> THEN "health_check"
    ELSE "proxy_request"

\* What GET {service_url}/health ends with for each item of SERVICE_ROUTES
\* the handler asks: the first three items (the services startup registers)
\* with any outcome, the others with a refused connection.
HealthAnswers ==
    {[i \in 1..Len(SERVICE_ROUTES) |-> IF i <= 3 THEN f[i] ELSE "connect_error"] :
        f \in [1..3 -> {"200", "503", "connect_error"}]}

\* services_status after the first i items of SERVICE_ROUTES.
RECURSIVE ServicesStatus(_, _, _, _, _)
ServicesStatus(S, R, answers, fault, i) ==
    IF i = 0 THEN EmptyDict
    ELSE LET service_name == SERVICE_ROUTES[i][2]
             g == GetServiceUrl(S, R, service_name, fault)
             entry ==
                 IF g.kind = "raise"
                 THEN [status |-> "error", error |-> "redis"]
                 ELSE IF g.kind = "none"
                 THEN [status |-> "not_found", url |-> << >>]
                 ELSE IF answers[i] \notin {"200", "503"}
                 THEN [status |-> "error", error |-> answers[i]]
                 ELSE [status |-> IF answers[i] = "200" THEN "healthy"
                                  ELSE "unhealthy",
                       url |-> g.url]
         IN  DictSet(ServicesStatus(S, R, answers, fault, i - 1), service_name,
                     entry)

\* The /health handler of the gateway: the status code and the body it returns.
GatewayHealthCheck(S, R, answers, fault) ==
    LET services_status == ServicesStatus(S, R, answers, fault, Len(SERVICE_ROUTES))
        healthy_services ==
            Cardinality({n \in DOMAIN services_status :
                            services_status[n].status = "healthy"})
        total_services == Cardinality(DOMAIN services_status)
    IN  [status_code |-> 200,
         body |-> [status |-> IF healthy_services = total_services THEN "healthy"
                              ELSE "degraded",
                   services |-> services_status,
                   healthy_services |-> <<healthy_services, "/", total_services>>,
                   timestamp |-> "utcnow"]]

InitGw ==
    /\ phase = "init"
    /\ resp = NoResp
    /\ proxyAttempts = 0
    /\ exchange = NoExchange

\* startup_event: initialize() registers user-service and metrics-collector,
\* then the gateway registers itself; failAt is the registration whose store
\* write raises (0: none), which ends the startup.
Startup(failAt) ==
    LET f(i) == IF failAt = i THEN "write" ELSE "none"
        r1 == RegisterService(services, redisSvc, "user-service", "user-service",
                              8001, "/health", f(1))
        r2 == RegisterService(r1.services, r1.redis, "metrics-collector",
                              "metrics-collector", 8002, "/health", f(2))
        r3 == RegisterService(r2.services, r2.redis, "api-gateway", "0.0.0.0",
                              8000, "/health", f(3))
        last == IF r1.raised THEN r1 ELSE IF r2.raised THEN r2 ELSE r3
    IN  /\ phase = "init"
        /\ services' = last.services
        /\ redisSvc' = last.redis
        /\ phase' = IF last.raised THEN "failed" ELSE "up"
        /\ UNCHANGED <<loopTime, failStreak, inflight, sdHist, resp, proxyAttempts,
                       exchange>>

\* One request through gateway_middleware and the catch-all route.  The
\* handler never calls the load balancer.
GatewayRequest(c, path, hdr, fault, down) ==
    LET r == RateLimitMiddleware(rlCount[c], rlTtl[c],
                IF fault = "rl_get" THEN "get"
                ELSE IF fault = "rl_write" THEN "write" ELSE "none")
        a == GatewayMiddleware(r, path, hdr, fault, down)
    IN  /\ phase = "up"
        /\ proxyAttempts < MaxAttempts
        /\ rlCount' = [rlCount EXCEPT ![c] = r.count]
        /\ rlTtl' = [rlTtl EXCEPT ![c] = r.ttl]
        /\ resp' = a
        /\ proxyAttempts' = IF a.forwarded THEN proxyAttempts + 1 ELSE proxyAttempts
        /\ UNCHANGED <<rlWin, rlLast, rlTask, rlUnit, phase, exchange>>

vars == <<rlVars, authVars, sdVars, lbVars, gwVars>>

Init == InitRl /\ InitAuth /\ InitSd /\ InitLb /\ InitGw

\* One unit of time passes.
Tick ==
    /\ \/ \E c \in Clients : rlTtl[c] > 0
       \/ \E t \in Tokens : blTtl[t] > 0
       \/ \E t \in ExpTokens : tokLife[t] >= 0
    /\ ExpireRl
    /\ ExpireAuth
    /\ UNCHANGED <<rlLast, rlTask, rlUnit, authLast, authSeen, blCalled, sdVars,
                   lbVars, gwVars>>

\* rate_limit_middleware called for a request of client c.
RateLimit(c, fault) ==
    /\ MayRequest(c)
    /\ RateLimitStep(c, fault, RateLimitMiddleware(rlCount[c], rlTtl[c], fault))
    /\ UNCHANGED <<rlTask, rlUnit, authVars, sdVars, lbVars, gwVars>>

RateLimitCall ==
    \E c \in Clients, fault \in StoreFaults : RateLimit(c, fault)

NextRL == RateLimitCall \/ Tick

SpecRL == Init /\ [][NextRL]_vars

\* The rate limiter run by two workers for one client, each call as its two
\* store operations, with time passing in the store between any two of them.
RateLimitGetCall ==
    \E w \in Workers, c \in {"10.0.0.1"} :
        /\ rlUnit[c].started < RateLimitRequests + MaxOverLimit
        /\ RateLimitGet(w, c)
        /\ UNCHANGED <<authVars, sdVars, lbVars, gwVars>>

RateLimitFinishCall ==
    \E w \in Workers :
        RateLimitFinish(w) /\ UNCHANGED <<authVars, sdVars, lbVars, gwVars>>

StoreTick ==
    /\ \/ \E c \in Clients : rlTtl[c] > 0
       \/ \E c \in Clients : rlUnit[c].started > 0
    /\ ExpireRlKeys
    /\ rlUnit' = [c \in Clients |-> [started |-> 0, admitted |-> 0]]
    /\ UNCHANGED <<rlWin, rlLast, rlTask, authVars, sdVars, lbVars, gwVars>>

NextRLW == RateLimitGetCall \/ RateLimitFinishCall \/ StoreTick

SpecRLW == Init /\ [][NextRLW]_vars

VerifyTokenCall ==
    \E hdr \in AuthHeaders, fault \in {"none", "get"} :
        VerifyCall(hdr, fault) /\ UNCHANGED <<rlVars, sdVars, lbVars, gwVars>>

BlacklistCall ==
    \E t \in Tokens, fault \in {"none", "write"} :
        BlacklistToken(t, fault) /\ UNCHANGED <<rlVars, sdVars, lbVars, gwVars>>

NextAuth == VerifyTokenCall \/ BlacklistCall \/ Tick

SpecAuth == Init /\ [][NextAuth]_vars

(***************************************************************************)
(* Properties of the rate limiter.                                          *)
(***************************************************************************)
\* C1: rate limit boundary.  For a client whose window saw no store failure,
\* the n-th request since the counter was absent is admitted and counted
\* while n <= L, and rejected with 429 with the counter left at L when
\* n > L; the counter created by the first request carries TTL W, which no
\* later request refreshes, so the key is gone W units after its creation and
\* the next request starts again at 1.
C1_RateLimitBoundary ==
    \A c \in Clients :
        LET w == rlWin[c]
        IN  /\ (w.n = 0) => (rlCount[c] = 0 \/ w.faulty)
            /\ (w.n > 0 /\ ~w.faulty) =>
                  /\ rlTtl[c] = RateLimitWindow - w.age
                  /\ rlTtl[c] > 0
                  /\ (w.n <= RateLimitRequests) =>
                        (w.last = "admit" /\ rlCount[c] = w.n)
                  /\ (w.n > RateLimitRequests) =>
                        (w.last = "reject429" /\ rlCount[c] = RateLimitRequests)

\* The (L+1)-th request of a window was rejected while the window was running.
C1_Witness ==
    \E c \in Clients :
        /\ rlWin[c].n = RateLimitRequests + 1
        /\ ~rlWin[c].faulty
        /\ rlWin[c].last = "reject429"
        /\ rlWin[c].age = 1
        /\ rlLast.client = c

\* C2: fail-open.  A call in which a store operation raised admits the
\* request, whatever the counter was; a call rejects only when it read a
\* counter that had reached the limit.
C2_FailOpen ==
    /\ rlLast.failed => rlLast.outcome = "admit"
    /\ (rlLast.outcome = "reject429") =>
          (~rlLast.failed /\ rlLast.pre >= RateLimitRequests)

\* A request was admitted at a full counter because the store read failed.
C2_Witness ==
    /\ rlLast.failed
    /\ rlLast.fault = "get"
    /\ rlLast.pre = RateLimitRequests
    /\ rlLast.outcome = "admit"

\* C26: bounded counter lifetime.  Every rate-limit counter in the store
\* carries a time-to-live of at most W, whatever the interleaving of the
\* calls' store operations with key expiry, so that no client is locked out
\* for good.
C26_CounterLifetime ==
    \A c \in Clients :
        rlCount[c] > 0 => (rlTtl[c] >= 1 /\ rlTtl[c] <= RateLimitWindow)

\* C27: rate limit under concurrency.  Of the requests one client issues
\* concurrently, at most L are admitted within one window, however their get
\* and incr operations interleave: here, within one unit of time, which lies
\* inside one window.
C27_ConcurrentLimit ==
    \A c \in Clients : rlUnit[c].admitted <= RateLimitRequests

(***************************************************************************)
(* Properties of the token verifier.                                        *)
(***************************************************************************)
\* C4: the four causes of an authentication failure (no bearer token, a
\* revoked token, a bad signature, a passed expiry) give four distinguishable
\* 401 responses: two different causes never produce the same detail.
C4_DistinctReasons ==
    \A k1, k2 \in {"missing", "revoked", "malformed", "expired"} :
        (k1 # k2 /\ authSeen[k1] # "none" /\ authSeen[k2] # "none")
            => authSeen[k1] # authSeen[k2]

ProbeFaults == {"none", "write", "write_once"}

RegisterCall ==
    \E name \in RegNames, ep \in Endpoints, path \in HealthPaths,
       fault \in {"none", "write"} :
        /\ Register(name, ep, path, fault)
        /\ failStreak' = [failStreak EXCEPT ![name] = 0]
        /\ UNCHANGED <<inflight, sdHist, rlVars, authVars, lbVars, gwVars>>

DeregisterCall ==
    \E name \in RegNames, fault \in {"none", "write"} :
        /\ Deregister(name, fault)
        /\ failStreak' = [failStreak EXCEPT ![name] = 0]
        /\ UNCHANGED <<inflight, sdHist, rlVars, authVars, lbVars, gwVars>>

ProbeCall ==
    \E name \in RegNames, probe \in ProbeOutcomes, fault \in ProbeFaults :
        /\ loopTime < MaxProbes
        /\ Probe(name, probe, fault)
        /\ failStreak' = StreakAfterProbe(name, probe)
        /\ UNCHANGED <<inflight, sdHist, rlVars, authVars, lbVars, gwVars>>

NextSD == RegisterCall \/ DeregisterCall \/ ProbeCall

SpecSD == Init /\ [][NextSD]_vars

\* The registry with the history of its last call: register_service,
\* deregister_service, health_check and health_check_all, in any order.
RegisterTracked ==
    \E name \in RegNames, ep \in Endpoints, path \in HealthPaths,
       fault \in {"none", "write"} :
        /\ Register(name, ep, path, fault)
        /\ sdLast' = [op |-> "register", name |-> name,
                      had |-> name \in DOMAIN services, raised |-> fault = "write"]
        /\ deregistered' = deregistered \ {name}
        /\ UNCHANGED <<inflight, failStreak, rlVars, authVars, lbVars, gwVars>>

DeregisterTracked ==
    \E name \in RegNames, fault \in {"none", "write"} :
        /\ Deregister(name, fault)
        /\ sdLast' = [op |-> "deregister", name |-> name,
                      had |-> name \in DOMAIN services, raised |-> fault = "write"]
        /\ deregistered' = IF fault = "write" THEN deregistered \ {name}
                           ELSE deregistered \cup {name}
        /\ UNCHANGED <<inflight, failStreak, rlVars, authVars, lbVars, gwVars>>

ProbeTracked ==
    \E name \in RegNames, probe \in ProbeOutcomes, fault \in ProbeFaults :
        /\ loopTime < MaxRounds
        /\ Probe(name, probe, fault)
        /\ sdLast' = [op |-> "probe", name |-> name,
                      had |-> name \in DOMAIN services,
                      raised |-> HealthCheck(services, redisSvc, name, probe,
                                             fault, loopTime + 1).raised]
        /\ UNCHANGED <<inflight, deregistered, failStreak, rlVars, authVars, lbVars,
                       gwVars>>

\* One round of health_check_all over the names registered now; each probe of
\* the round ends with 200, 503 or a connection failure, and the store is
\* reachable or not for each coroutine.
ProbeAllTracked ==
    \E order \in Orders(DOMAIN services),
       probes \in [DOMAIN services -> {"200", "503", "connect_error"}],
       faults \in [DOMAIN services -> {"none", "write"}] :
        /\ DOMAIN services # {}
        /\ loopTime < MaxRounds
        /\ ProbeAll(order, probes, faults)
        /\ sdLast' = [op |-> "probe_all", name |-> "", had |-> TRUE,
                      raised |-> \E n \in DOMAIN services :
                          HealthCheck(services, redisSvc, n, probes[n],
                                      faults[n], loopTime + 1).raised]
        /\ UNCHANGED <<inflight, deregistered, failStreak, rlVars, authVars, lbVars,
                       gwVars>>

\* The registry with probes that take time: a health_check is suspended on
\* its GET while register_service and deregister_service run.
RegisterDuring ==
    \E name \in RegNames, ep \in Endpoints, path \in HealthPaths :
        /\ Register(name, ep, path, "none")
        /\ inflight' = [inflight EXCEPT ![name] = IF @ = "none" THEN @ ELSE "stale"]
        /\ deregistered' = deregistered \ {name}
        /\ UNCHANGED <<sdLast, failStreak, rlVars, authVars, lbVars, gwVars>>

DeregisterDuring ==
    \E name \in RegNames :
        /\ Deregister(name, "none")
        /\ inflight' = [inflight EXCEPT ![name] = IF @ = "none" THEN @ ELSE "stale"]
        /\ deregistered' = deregistered \cup {name}
        /\ UNCHANGED <<sdLast, failStreak, rlVars, authVars, lbVars, gwVars>>

\* health_check(name) up to its await of the GET.
ProbeStart ==
    \E name \in RegNames :
        /\ name \in DOMAIN services
        /\ inflight[name] = "none"
        /\ inflight' = [inflight EXCEPT ![name] = "live"]
        /\ UNCHANGED <<services, redisSvc, loopTime, failStreak, sdHist, rlVars,
                       authVars, lbVars, gwVars>>

\* The GET of a suspended health_check ends and the coroutine runs on.
ProbeResume ==
    \E name \in RegNames, probe \in ProbeOutcomes, fault \in {"none", "write"} :
        /\ inflight[name] # "none"
        /\ loopTime < MaxProbes
        /\ LET r == HealthCheckResume(services, redisSvc, name,
                                      inflight[name] = "live", probe, fault,
                                      loopTime + 1)
           IN  /\ services' = r.services
               /\ redisSvc' = r.redis
        /\ loopTime' = loopTime + 1
        /\ inflight' = [inflight EXCEPT ![name] = "none"]
        /\ UNCHANGED <<failStreak, sdHist, rlVars, authVars, lbVars, gwVars>>

NextFlight == RegisterDuring \/ DeregisterDuring \/ ProbeStart \/ ProbeResume

SpecFlight == Init /\ [][NextFlight]_vars

NextReg == RegisterTracked \/ DeregisterTracked \/ ProbeTracked \/ ProbeAllTracked

SpecReg == Init /\ [][NextReg]_vars

RecordCall ==
    \E s \in LbServices, e \in BOOLEAN :
        /\ total_requests < MaxRecords
        /\ s # LongService => DictGet(request_counts, s, 0) < MaxOther
        /\ e => DictGet(error_counts, s, 0) < MaxErrors
        /\ Record(s, NextSample(s), e)
        /\ UNCHANGED <<sentTo, rlVars, authVars, sdVars, gwVars>>

SelectCall ==
    \E instances \in InstanceLists, algorithm \in Algorithms :
        /\ rrRun.m < MaxSelections
        /\ Select(instances, algorithm)
        /\ UNCHANGED <<sentTo, rlVars, authVars, sdVars, gwVars>>

NextLB == RecordCall \/ SelectCall

SpecLB == Init /\ [][NextLB]_vars

\* The load balancer fed by a caller that reports every proxied call: the
\* call went to one instance of service s and is reported, as record_request
\* requires, under the name of the service.
RecordProxiedCall ==
    \E s \in LbServices, inst \in {"http://a:8001", "http://b:8001", "http://c:8001"},
       e \in BOOLEAN :
        /\ DictGet(sentTo, inst, 0) < MaxProxied
        /\ Record(s, NextSample(s), e)
        /\ sentTo' = DictSet(sentTo, inst, DictGet(sentTo, inst, 0) + 1)
        /\ UNCHANGED <<rlVars, authVars, sdVars, gwVars>>

NextLC == RecordProxiedCall \/ SelectCall

SpecLC == Init /\ [][NextLC]_vars

StartupCall ==
    \E failAt \in 0..3 :
        Startup(failAt) /\ UNCHANGED <<rlVars, authVars, lbVars>>

RequestCall ==
    \E c \in {"10.0.0.1"}, path \in Paths, hdr \in PipelineHeaders,
       fault \in PipelineFaults, down \in Downstream :
        /\ fault # "none" => down = [kind |-> "response", status |-> 200]
        /\ GatewayRequest(c, path, hdr, fault, down)
        /\ UNCHANGED <<authVars, sdVars, lbVars>>

\* health_check run for a registered backend while the gateway is up.
GatewayProbe ==
    \E probe \in {"200", "connect_error"} :
        /\ phase = "up"
        /\ loopTime < MaxProbes
        /\ Probe("user-service", probe, "none")
        /\ failStreak' = StreakAfterProbe("user-service", probe)
        /\ UNCHANGED <<inflight, sdHist, rlVars, authVars, lbVars, gwVars>>

\* blacklist_token called for a token while the gateway is up.
GatewayBlacklist ==
    /\ phase = "up"
    /\ BlacklistToken("tokA", "none")
    /\ UNCHANGED <<rlVars, sdVars, lbVars, gwVars>>

Next == StartupCall \/ RequestCall \/ GatewayProbe \/ GatewayBlacklist

Spec == Init /\ [][Next]_vars

\* The handler keeps nothing from one request to the next, so a behaviour
\* forwards one request.
ForwardCall ==
    /\ ~exchange.done
    /\ \E req \in InboundRequests, down \in DownResponses :
          /\ Forward(req, down)
          /\ UNCHANGED <<rlVars, authVars, sdVars, lbVars>>

NextFwd == StartupCall \/ ForwardCall

SpecFwd == Init /\ [][NextFwd]_vars

\* The gateway process as main.py runs it: startup_event, then requests.
\* startup_event does not create a task for start_health_monitoring, and no
\* other code of the gateway calls it, health_check_all or health_check, so
\* the running process takes no probe step.  The startup is a step the
\* process takes by itself; requests come when callers send them.
NextServe == StartupCall \/ RequestCall

SpecServe == Init /\ [][NextServe]_vars /\ WF_vars(StartupCall)

\* C29: revocation is permanent.  Once blacklist_token was called for a token
\* with a valid signature, verify_token never succeeds for it again, at any
\* later time, with or without an exp claim in the token, and whether or not
\* the write to the store succeeded.
C29_RevocationPermanent ==
    \A t \in blCalled :
        TokenSigOk(t) => ~VerifyToken(<<"Bearer", t>>, "none").ok

(***************************************************************************)
(* Properties of the request pipeline.                                      *)
(***************************************************************************)
\* C3: authentication gate.  A request to a non-public path is forwarded
\* downstream only if its credential is acceptable (verify_token succeeded);
\* one whose credential is not acceptable, and which the rate limiter let
\* through, ends with 401 and no outbound call.
C3_AuthGate ==
    /\ (resp.forwarded /\ ~IsPublicEndpoint(resp.path)) => resp.cause = "valid"
    /\ (resp.status \notin {0, 429} /\ ~IsPublicEndpoint(resp.path)
            /\ resp.cause # "valid")
          => (resp.status = 401 /\ ~resp.forwarded /\ resp.handler = "none")

\* A request without an Authorization header to a non-public path of a
\* resolvable service ended with 401, and no outbound call was ever issued.
C3_Witness ==
    /\ resp.path = <<"/metrics", "/query">>
    /\ resp.cause = "missing"
    /\ resp.status = 401
    /\ ~resp.forwarded
    /\ proxyAttempts = 0
    /\ GetServiceUrl(services, redisSvc, "metrics-collector", "none").kind = "url"

\* C8: a request whose path maps to a service without a healthy entry in the
\* registry is answered 503 with no outbound call; an outbound call is issued
\* only to a service whose liveness is healthy.
C8_OnlyHealthyProxied ==
    /\ resp.forwarded => resp.targetStatus = "healthy"
    /\ (resp.handler # "none" /\ resp.target # "" /\ resp.fault = "none"
            /\ resp.targetStatus # "healthy")
          => (resp.status = 503 /\ ~resp.forwarded)

RECURSIVE DictSum(_)
DictSum(d) ==
    IF DOMAIN d = {} THEN 0
    ELSE LET k == CHOOSE x \in DOMAIN d : TRUE
         IN  d[k] + DictSum(DictDel(d, k))

\* C9: every completed proxy attempt is reported to record_request once:
\* after k attempts get_total_requests() is k and the per-service counts sum
\* to k.
C9_AttemptsRecorded ==
    /\ total_requests = proxyAttempts
    /\ DictSum(request_counts) = proxyAttempts

\* C10: a failure of the outbound call leaves proxy_request as an
\* HTTPException mapped by kind (connection error 503, timeout 504, any other
\* exception 500), never as the transport's exception.
C10_TransportMapping ==
    (resp.forwarded /\ resp.down # "response") =>
        /\ resp.handler = "HTTPException"
        /\ resp.via = "returned"
        /\ resp.down = "connect_error" => resp.status = 503
        /\ resp.down = "timeout" => resp.status = 504
        /\ resp.down = "error" => resp.status = 500

\* An outbound call timed out and the caller got 504.
C10_Witness ==
    /\ resp.forwarded
    /\ resp.down = "timeout"
    /\ resp.status = 504
    /\ proxyAttempts = 1

\* C11: an unexpected internal fault in the pipeline ends with a 500 whose
\* body is one fixed generic message: it carries no text of the exception, so
\* it is the same whatever the fault was.
C11_GenericFaultBody ==
    (resp.handler = "Exception") =>
        /\ resp.status = 500
        /\ resp.detail = "Internal server error"
        /\ resp.message = ""

\* C13: periodic probing.  Once the gateway has started, a registered
\* endpoint (user-service, registered by the startup) is probed again and
\* again, so its liveness eventually is healthy or unhealthy: it does not
\* stay unknown forever.
C13_EventuallyProbed ==
    (phase = "up") ~> (Liveness("user-service") # "unknown")

\* Paths find_target_service is asked about: under a route, past the end of
\* a route prefix within one segment ("/authx", "/configuration"), shorter
\* than a prefix, the root and paths no route covers.
RoutedPaths ==
    Paths \cup {<<"/auth", "x">>, <<"/config", "uration">>, <<"/au">>, <<"/">>,
                << >>, <<"/users", "/5">>, <<"/gateway", "/metrics">>,
                <<"/health">>, <<"/ml", "/metrics">>}

\* C17: routing determinism.  find_target_service(path) is the service of
\* the first route of the table, in declaration order, whose prefix the path
\* starts with, and None when there is none; the catch-all handler routes by
\* it and answers 404, with no outbound call, for a path no route matches.
C17_RoutingFirstMatch ==
    /\ \A path \in RoutedPaths :
          LET s == FindTargetService(path)
              match(i) == StartsWith(path, SERVICE_ROUTES[i][1])
          IN  /\ (s = "") <=> (\A i \in 1..Len(SERVICE_ROUTES) : ~match(i))
              /\ (s # "") =>
                    \E i \in 1..Len(SERVICE_ROUTES) :
                        /\ match(i)
                        /\ SERVICE_ROUTES[i][2] = s
                        /\ \A j \in 1..(i - 1) : ~match(j)
    /\ (resp.handler # "none") => resp.target = FindTargetService(resp.path)
    /\ (resp.handler # "none" /\ FindTargetService(resp.path) = "") =>
          (resp.status = 404 /\ ~resp.forwarded)

\* A request with a valid token for a path no route matches was answered 404
\* by the catch-all handler.
C17_Witness ==
    /\ resp.path = <<"/unknown">>
    /\ resp.cause = "valid"
    /\ resp.handler = "HTTPException"
    /\ resp.status = 404
    /\ resp.target = ""
    /\ ~resp.forwarded

\* C20: gate ordering.  The rate limiter is the first stage of every
\* request; a request it rejects ends with 429, the token verifier not run
\* and no outbound call issued; the token verifier runs only after the
\* limiter admitted the request (its internal failures admit too).
C20_GateOrdering ==
    /\ (resp.status # 0) => (resp.stages # << >> /\ resp.stages[1] = "rate_limit")
    /\ (resp.limiter = "reject429") =>
          /\ resp.status = 429
          /\ resp.stages = <<"rate_limit">>
          /\ resp.handler = "none"
          /\ ~resp.forwarded
    /\ (\E i \in 1..Len(resp.stages) : resp.stages[i] = "verify_token") =>
          resp.limiter = "admit"
    /\ (resp.status = 429) => resp.limiter = "reject429"

\* A request over the limit, without a token and for a non-public path of a
\* resolvable service, ended with 429 after the rate limiter alone.
C20_Witness ==
    /\ resp.limiter = "reject429"
    /\ resp.status = 429
    /\ resp.cause = "missing"
    /\ resp.path = <<"/metrics", "/query">>
    /\ resp.stages = <<"rate_limit">>
    /\ rlCount["10.0.0.1"] = RateLimitRequests

\* C18: request pass-through.  The outbound request has the method, the path
\* and the body of the inbound one, every inbound header but Host, and a URL
\* that is the service's base URL, the inbound path and, after "?", the
\* inbound query string.
C18_PassThrough ==
    exchange.done =>
        LET base == GetServiceUrl(services, redisSvc,
                                  FindTargetService(exchange.req.path), "none").url
        IN  /\ exchange.out.method = exchange.req.method
            /\ exchange.out.body = exchange.req.body
            /\ exchange.out.headers =
                  [h \in DOMAIN exchange.req.headers \ {"host"} |-> exchange.req.headers[h]]
            /\ exchange.out.url =
                  base \o exchange.req.path
                       \o (IF exchange.req.query # << >> THEN <<"?">> \o exchange.req.query
                           ELSE << >>)

\* C19: response relay.  When the downstream call returned a response, the
\* caller gets its status code and its body unchanged, and its headers
\* without content-encoding and transfer-encoding.
C19_ResponseRelay ==
    exchange.done =>
        /\ exchange.relay.kind = "response"
        /\ exchange.relay.status = exchange.down.status
        /\ exchange.relay.body = exchange.down.body
        /\ exchange.relay.headers =
              [h \in DOMAIN exchange.down.headers
                      \ {"content-encoding", "transfer-encoding"} |->
                  exchange.down.headers[h]]

\* C21: composite health.  GET /health of the started gateway reports a
\* status for every service registered in the registry, and the overall
\* status is healthy exactly when every reported status is healthy, degraded
\* otherwise.
C21_CompositeHealth ==
    phase = "up" =>
        \A answers \in HealthAnswers :
            LET h == GatewayHealthCheck(services, redisSvc, answers, "none").body
            IN  /\ \A name \in DOMAIN services : name \in DOMAIN h.services
                /\ h.status \in {"healthy", "degraded"}
                /\ (h.status = "healthy") <=>
                       (\A n \in DOMAIN h.services :
                            h.services[n].status = "healthy")

\* C22: with the gateway started and user-service and metrics-collector
\* answering 200 on their health path, GET /health returns 200 with a body
\* whose status is healthy and whose service field is api-gateway.
C22_HealthWhenBackendsUp ==
    phase = "up" =>
        LET h == GatewayHealthCheck(services, redisSvc,
                     [i \in 1..Len(SERVICE_ROUTES) |->
                         IF i <= 3 THEN "200" ELSE "connect_error"], "none")
        IN  /\ h.status_code = 200
            /\ h.body.status = "healthy"
            /\ "service" \in DOMAIN h.body
            /\ h.body.service = "api-gateway"

\* C23: a GET /services without credentials, sent to the started gateway by a
\* client the rate limiter admits, is served by list_services and answered
\* 200 with a body that has the key services.
C23_ServicesListing ==
    phase = "up" =>
        LET r == RateLimitMiddleware(0, 0, "none")
            a == GatewayMiddleware(r, <<"/services">>, <<"none", "">>, "none",
                                   [kind |-> "response", status |-> 200])
        IN  /\ RouteHandler(<<"/services">>) = "list_services"
            /\ a.status = 200

\* C30: authentication fails closed.  When the revocation store cannot be
\* read, verify_token answers 401 for every token, so that no request to a
\* non-public path is forwarded while the store is down; the rate limiter,
\* when its read of the store fails, admits the request.
C30_AuthFailsClosed ==
    /\ \A hdr \in AuthHeaders :
           LET v == VerifyToken(hdr, "get")
           IN  ~v.ok /\ v.status = 401
    /\ (resp.fault = "auth_get" /\ ~resp.public /\ resp.status # 0) =>
           /\ ~resp.forwarded
           /\ resp.handler = "none"
           /\ resp.status = IF resp.limiter = "admit" THEN 401 ELSE 429
    /\ resp.fault = "rl_get" => resp.limiter = "admit"

\* A request with a valid token to a resolvable, non-public path, handled
\* while the revocation store could not be read: admitted by the rate
\* limiter, answered 401, never forwarded.
C30_Witness ==
    /\ resp.fault = "auth_get"
    /\ resp.path = <<"/metrics", "/query">>
    /\ resp.cause = "store_fault"
    /\ resp.limiter = "admit"
    /\ resp.status = 401
    /\ resp.detail = "Authentication failed"
    /\ ~resp.forwarded
    /\ ~TokenExpired("tokA") /\ blTtl["tokA"] = 0
    /\ GetServiceUrl(services, redisSvc, "metrics-collector", "none").kind = "url"

(***************************************************************************)
(* Properties of the load balancer.                                         *)
(***************************************************************************)
\* C5: round-robin fairness.  In a run of M consecutive round_robin
\* selections on one list of N >= 2 instances with no record_request in
\* between, once M >= N every instance of the list has been returned
\* floor(M/N) or ceil(M/N) times.
C5_RoundRobinFair ==
    LET N == Len(rrRun.list)
        M == rrRun.m
    IN  (N >= 2 /\ M >= N) =>
            \A i \in 1..N :
                DictGet(rrRun.picks, rrRun.list[i], 0) \in {M \div N, (M + N - 1) \div N}

\* C6: sample ring bound.  For every service the retained samples are the
\* most recent min(n, 100) of the n samples recorded for it, in recording
\* order, and get_average_response_time is their mean.
C6_SampleRing ==
    \A s \in DOMAIN recorded :
        LET n == Len(recorded[s])
            k == IF n < MaxSamples THEN n ELSE MaxSamples
            avg == GetAverageResponseTime(response_times, s)
        IN  /\ s \in DOMAIN response_times
            /\ Len(response_times[s]) <= MaxSamples
            /\ response_times[s] = SubSeq(recorded[s], n - k + 1, n)
            /\ avg.den = k
            /\ avg.num = SeqSum(SubSeq(recorded[s], n - k + 1, n))

\* 150 samples were recorded for one service and the oldest 50 are gone.
C6_Witness ==
    /\ LongService \in DOMAIN recorded
    /\ Len(recorded[LongService]) = 150
    /\ Len(response_times[LongService]) = 100
    /\ response_times[LongService][1] = recorded[LongService][51]

\* C24: health score.  get_health_score is the mean of the error score
\* max(0, 100 - 2 * error rate) and the latency score
\* max(0, 100 - (average latency - 100) / 10), each clamped to [0, 100]
\* before the mean is taken, and lies in [0, 100].
C24_HealthScore ==
    \A s \in LbServices :
        LET score == GetHealthScore(request_counts, error_counts, response_times, s)
            rate == GetErrorRate(request_counts, error_counts, s)
            avg == GetAverageResponseTime(response_times, s)
            clamp(x, hi) == IF x < 0 THEN 0 ELSE IF x > hi THEN hi ELSE x
            error_part == clamp(100 * rate.den - 2 * rate.num, 100 * rate.den)
            time_part == clamp(1100 * avg.den - avg.num, 1000 * avg.den)
        IN  /\ score.den = 20 * rate.den * avg.den
            /\ score.num = error_part * 10 * avg.den + time_part * rate.den
            /\ 0 <= score.num /\ score.num <= 100 * score.den

\* C25: least-connections selection.  With two or more candidates,
\* least_connections returns a candidate for which the fewest proxied calls
\* were reported through record_request.
C25_LeastConnections ==
    \A instances \in InstanceLists :
        Len(instances) >= 2 =>
            \A r \in SelectInstance(instances, "least_connections",
                                    total_requests, request_counts) :
                \A i \in 1..Len(instances) :
                    DictGet(sentTo, r, 0) <= DictGet(sentTo, instances[i], 0)

(***************************************************************************)
(* Properties of the service registry.                                      *)
(***************************************************************************)
\* C7: health liveness transition.  get_service_url returns a URL only for a
\* name whose in-memory liveness is healthy; in particular, for a name whose
\* last three probes failed it returns None.
C7_ResolveOnlyHealthy ==
    \A name \in ServiceNames :
        LET g == GetServiceUrl(services, redisSvc, name, "none")
        IN  /\ (g.kind = "url") =>
                   (name \in DOMAIN services /\ services[name].status = "healthy")
            /\ (failStreak[name] >= 3) =>
                   (services[name].status = "unhealthy" /\ g.kind = "none")

\* C12: probe outcome mapping.  A probe of a registered endpoint whose GET
\* returned 200 leaves its liveness healthy, and one that got another status,
\* a timeout or a connection failure leaves it unhealthy, also when the write
\* of the status to the store fails during the probe.
C12_ProbeOutcome ==
    \A name \in DOMAIN services, probe \in ProbeOutcomes, fault \in ProbeFaults :
        HealthCheck(services, redisSvc, name, probe, fault,
                    loopTime + 1).services[name].status
            = IF probe = "200" THEN "healthy" ELSE "unhealthy"

\* C14: health_check_all never raises and its probes are independent.  A
\* round run from any reachable registry, whatever each probe ends with and
\* whichever coroutine's store write fails, returns normally, and leaves
\* every registered endpoint with the round's probe time and a liveness of
\* healthy or unhealthy: the entry that health_check alone would have left.
C14_RoundIndependent ==
    \A order \in Orders(DOMAIN services),
       probes \in [DOMAIN services -> ProbeOutcomes],
       faults \in [DOMAIN services -> ProbeFaults] :
        LET t == loopTime + 1
            r == HealthCheckAll(services, redisSvc, order, probes, faults, t)
        IN  /\ ~r.raised
            /\ DOMAIN r.services = DOMAIN services
            /\ \A n \in DOMAIN services :
                  /\ r.services[n].last_check = t
                  /\ r.services[n].status \in {"healthy", "unhealthy"}
                  /\ r.services[n] =
                        HealthCheck(services, redisSvc, n, probes[n], faults[n],
                                    t).services[n]

\* A round ended in which one health_check raised (its store write failed
\* after a failed probe, so the store still holds the status of the
\* registration) and another endpoint was found healthy in the same round.
C14_Witness ==
    /\ sdLast.op = "probe_all"
    /\ sdLast.raised
    /\ \E a, b \in DOMAIN services :
          /\ a # b
          /\ services[a].last_check = loopTime
          /\ services[b].last_check = loopTime
          /\ services[a].status = "unhealthy"
          /\ a \in DOMAIN redisSvc /\ redisSvc[a].status = "registered"
          /\ services[b].status = "healthy"
          /\ b \in DOMAIN redisSvc /\ redisSvc[b].status = "healthy"

\* Health paths a registration can be given.
AnyHealthPaths == {"/health", "/ready"}

\* C15: registry uniqueness.  The registry lists at most one entry per name;
\* register_service(name, host, port, path) from any reachable registry,
\* whether or not its store write fails, leaves for name one entry with url
\* http://host:port, the given health path, liveness unknown and no probe
\* time, adds no other name and leaves every other entry as it was.
C15_RegisterReplaces ==
    /\ \A a, b \in ListServices(services) : a.name = b.name => a = b
    /\ \A name \in RegNames, ep \in Endpoints, path \in AnyHealthPaths,
          fault \in {"none", "write"} :
          LET r == RegisterService(services, redisSvc, name, ep[1], ep[2], path,
                                   fault)
          IN  /\ DOMAIN r.services = DOMAIN services \cup {name}
              /\ r.services[name].url = Url(ep[1], ep[2])
              /\ r.services[name].health_check_url = path
              /\ r.services[name].status = "unknown"
              /\ r.services[name].last_check = 0
              /\ \A o \in DOMAIN services \ {name} : r.services[o] = services[o]
              /\ \A a, b \in ListServices(r.services) : a.name = b.name => a = b

\* A name was registered over an entry that a probe had found healthy (the
\* store, whose write failed this time, still says so), next to another
\* entry that keeps its probed liveness.
C15_Witness ==
    /\ sdLast.op = "register"
    /\ sdLast.had
    /\ sdLast.raised
    /\ sdLast.name \in DOMAIN services
    /\ services[sdLast.name].status = "unknown"
    /\ services[sdLast.name].last_check = 0
    /\ sdLast.name \in DOMAIN redisSvc
    /\ redisSvc[sdLast.name].status = "healthy"
    /\ \E o \in DOMAIN services :
          o # sdLast.name /\ services[o].status = "unhealthy"
                          /\ services[o].last_check > 0

C28_DeregistrationFinal ==
    /\ [](\A name \in deregistered :
            inflight[name] = "none" =>
                (name \notin DOMAIN services /\ name \notin DOMAIN redisSvc))
    /\ [][\A name \in RegNames :
            (inflight[name] = "stale" /\ inflight'[name] = "none") =>
                (services' = services /\ redisSvc' = redisSvc)]_vars

====
